---- MODULE Spec2Model ----
(***************************************************************************)
(* The request-admission pipeline of slack_events_proxy (src/proxy.go):    *)
(* HttpsRedirectHandler, RestrictMethodHandler, RestrictURIHandler,        *)
(* BodyLimitHandler, VerifySlackSignatureHandler and the chain that        *)
(* buildHandler wires in front of the reverse proxy.                       *)
(*                                                                         *)
(* Go strings are TLA+ strings; a []byte is a sequence of 0..255.  A       *)
(* handler chain is the sequence of the nested handlers, outermost first.  *)
(***************************************************************************)
EXTENDS Integers, Sequences, FiniteSets, TLC

VARIABLES
    cfg,      \* the flags (or the test harness) the handler was built from
    now,      \* time.Now(), in seconds
    pc,       \* "idle" | "serve" | "readall" | "done" | "crashed"
    req,      \* the request being served
    idx,      \* position in the chain of the innermost handler invoked so far
    limited,  \* r.Body has been replaced by the bounded reader (line 264)
    left,     \* the bounded reader's remaining budget (line 238)
    inPos,    \* bytes consumed so far from the inbound body stream
    buf,      \* bytes gathered so far by the running ioutil.ReadAll
    newBody,  \* the buffer VerifySlackSignatureHandler put in r.Body, or NoBody
    written,  \* the status codes passed to WriteHeader, in order
    seen,     \* the body the terminal handler read, or NoBody
    prev,     \* history: the last validly signed request served, or NoPrev
    parked    \* the request of the other goroutine, which is not running now

vars == <<cfg, now, pc, req, idx, limited, left, inPos, buf, newBody,
          written, seen, prev, parked>>

----------------------------------------------------------------------------
(* Bounds of the model *)

\* longest request body, in bytes
MaxBodyLen == 2

\* latest clock value, in seconds
MaxNow == 2

----------------------------------------------------------------------------
(* net/http status codes and the constants of the source *)

StatusOK == 200
StatusMovedPermanently == 301
StatusBadRequest == 400
StatusUnauthorized == 401
StatusNotFound == 404
StatusMethodNotAllowed == 405
StatusRequestEntityTooLarge == 413
StatusInternalServerError == 500
StatusBadGateway == 502

SlackSignatureVersion == "v0"

\* http.Request.ContentLength of a body of unknown length
UnknownLength == -1

\* no replacement body: r.Body is left as it was
BodyNotReplaced(bytes) == [present |-> FALSE, bytes |-> ""]

\* a replacement body that loses the last byte
BodyDropLast(bytes) ==
    [present |-> TRUE, bytes |-> SubSeq(bytes, 1, Len(bytes) - 1)]

\* a body held in memory, and the absence of one
Body(bytes) == [present |-> TRUE, bytes |-> bytes]
NoBody == [present |-> FALSE, bytes |-> ""]

\* the inbound stream never fails
NoFail == -1

----------------------------------------------------------------------------
(* Strings *)

Min(a, b) == IF a < b THEN a ELSE b

CharAt(s, i) == SubSeq(s, i, i)

\* strings.HasPrefix
HasPrefix(s, prefix) ==
    /\ Len(prefix) <= Len(s)
    /\ SubSeq(s, 1, Len(prefix)) = prefix

\* a trimming that leaves the last character of the prefix in place
TrimPrefixOffByOne(s, prefix) ==
    IF HasPrefix(s, prefix) THEN SubSeq(s, Len(prefix), Len(s)) ELSE s

\* strings.TrimPrefix
TrimPrefix(s, prefix) ==
    IF HasPrefix(s, prefix) THEN SubSeq(s, Len(prefix) + 1, Len(s)) ELSE s

Digits == "0123456789"

\* the value of a decimal digit, -1 for any other character
DigitVal(c) ==
    IF \E i \in 1..10 : CharAt(Digits, i) = c
    THEN (CHOOSE i \in 1..10 : CharAt(Digits, i) = c) - 1
    ELSE -1

RECURSIVE DecimalValue(_, _)
DecimalValue(s, acc) ==
    IF s = "" THEN acc
    ELSE DecimalValue(Tail(s), 10 * acc + DigitVal(Head(s)))

\* strconv.Atoi: an optional sign, then one or more decimal digits
Atoi(s) ==
    LET signed == s # "" /\ Head(s) \in {"+", "-"}
        digits == IF signed THEN Tail(s) ELSE s
        ok     == /\ digits # ""
                  /\ \A i \in 1..Len(digits) : DigitVal(CharAt(digits, i)) >= 0
        mag    == IF ok THEN DecimalValue(digits, 0) ELSE 0
    IN  [ok  |-> ok,
         val |-> IF signed /\ Head(s) = "-" THEN 0 - mag ELSE mag]

\* the byte of each character the model's strings are made of (ASCII)
Ord ==
    ("a" :> 97) @@ ("b" :> 98) @@ ("k" :> 107) @@ ("j" :> 106) @@
    ("v" :> 118) @@ ("x" :> 120) @@ (":" :> 58) @@ ("+" :> 43) @@
    ("-" :> 45) @@ ("0" :> 48) @@ ("1" :> 49) @@ ("2" :> 50) @@
    ("3" :> 51) @@ ("l" :> 108) @@ ("o" :> 111)

\* []byte(s)
Bytes(s) == [i \in 1..Len(s) |-> Ord[CharAt(s, i)]]

HexLower == "0123456789abcdef"
HexUpper == "0123456789ABCDEF"

\* encoding/hex fromHexChar: the nibble of a hex digit of either case, -1 if none
FromHexChar(c) ==
    IF \E i \in 1..16 : CharAt(HexLower, i) = c
    THEN (CHOOSE i \in 1..16 : CharAt(HexLower, i) = c) - 1
    ELSE IF \E i \in 1..16 : CharAt(HexUpper, i) = c
    THEN (CHOOSE i \in 1..16 : CharAt(HexUpper, i) = c) - 1
    ELSE -1

\* hex.DecodeString: fails on an odd length or on a character that is no hex digit
HexDecodeString(s) ==
    LET ok == /\ Len(s) % 2 = 0
              /\ \A i \in 1..Len(s) : FromHexChar(CharAt(s, i)) >= 0
    IN  [ok    |-> ok,
         bytes |-> IF ok
                   THEN [i \in 1..(Len(s) \div 2) |->
                            16 * FromHexChar(CharAt(s, 2 * i - 1))
                               + FromHexChar(CharAt(s, 2 * i))]
                   ELSE <<>>]

RECURSIVE HexEncodeToString(_)
\* hex.EncodeToString, as the sender of a signed request applies it
HexEncodeToString(bytes) ==
    IF bytes = <<>> THEN ""
    ELSE CharAt(HexLower, (Head(bytes) \div 16) + 1)
            \o CharAt(HexLower, (Head(bytes) % 16) + 1)
            \o HexEncodeToString(Tail(bytes))

\* hmac.New(sha256.New, key) over msg.  SHA-256 is not computed: the digest is
\* the idealised keyed hash, a byte string that determines key and message
\* (no collisions), with a 0 byte between the two.
HmacSha256(key, msg) == Bytes(key) \o <<0>> \o Bytes(msg)

----------------------------------------------------------------------------
(* Handlers and the chains built from them *)

Handler(h, list, max, token, expire, code) ==
    [h |-> h, list |-> list, max |-> max, token |-> token,
     expire |-> expire, code |-> code]

ReverseProxy == Handler("ReverseProxy", <<>>, 0, "", 0, 0)

StatusHandler(statusCode) == Handler("StatusHandler", <<>>, 0, "", 0, statusCode)

\* a child that panics, with a value that is not the sentinel of a
\* BodyLimitHandler
PanicHandler == Handler("PanicHandler", <<>>, 0, "", 0, 0)

HttpsRedirectHandler == Handler("HttpsRedirectHandler", <<>>, 0, "", 0, 0)

RestrictMethodHandler(methods) ==
    Handler("RestrictMethodHandler", methods, 0, "", 0, 0)

\* a normalisation that puts "/" in front of every pattern, the empty ones too
NormalizeURIsKeepEmpty(uri) ==
    [i \in 1..Len(uri) |-> IF HasPrefix(uri[i], "/") THEN uri[i] ELSE "/" \o uri[i]]

RECURSIVE NormalizeURIs(_)
\* the loop of RestrictURIHandler over its patterns: an empty pattern is
\* removed, a pattern without a leading "/" gets one
NormalizeURIs(uri) ==
    IF uri = <<>> THEN <<>>
    ELSE IF Len(Head(uri)) < 1 THEN NormalizeURIs(Tail(uri))
    ELSE IF CharAt(Head(uri), 1) # "/"
         THEN <<"/" \o Head(uri)>> \o NormalizeURIs(Tail(uri))
    ELSE <<Head(uri)>> \o NormalizeURIs(Tail(uri))

RestrictURIHandler(uri) ==
    Handler("RestrictURIHandler", NormalizeURIs(uri), 0, "", 0, 0)

BodyLimitHandler(maxSize) == Handler("BodyLimitHandler", <<>>, maxSize, "", 0, 0)

VerifySlackSignatureHandler(token, expire) ==
    Handler("VerifySlackSignatureHandler", <<>>, 0, token, expire, 0)

\* child wrapped by handler h
Wrap(h, child) == <<h>> \o child

\* buildHandler, over the flags f
BuildHandler(f) ==
    LET h1 == <<ReverseProxy>>
        h2 == Wrap(VerifySlackSignatureHandler(f.token, f.expire), h1)
        h3 == IF Len(f.uris) > 0
              THEN Wrap(RestrictMethodHandler(f.uris), h2) ELSE h2
        h4 == IF Len(f.methods) > 0
              THEN Wrap(RestrictMethodHandler(f.methods), h3) ELSE h3
        h5 == IF f.maxBody > 0 THEN Wrap(BodyLimitHandler(f.maxBody), h4) ELSE h4
        h6 == IF f.tlsRedirect THEN Wrap(HttpsRedirectHandler, h5) ELSE h5
    IN  h6

\* the handler under test: the chain of buildHandler, or one handler in front
\* of the StatusHandler stub as the tests set it up
Chain(c) ==
    CASE c.kind = "buildHandler" -> BuildHandler(c)
      [] c.kind = "HttpsRedirectHandler" ->
            Wrap(HttpsRedirectHandler, <<StatusHandler(StatusOK)>>)
      [] c.kind = "RestrictMethodHandler" ->
            Wrap(RestrictMethodHandler(c.methods), <<StatusHandler(StatusOK)>>)
      [] c.kind = "RestrictURIHandler" ->
            Wrap(RestrictURIHandler(c.uris), <<StatusHandler(StatusOK)>>)
      [] c.kind = "BodyLimitHandler" ->
            Wrap(BodyLimitHandler(c.maxBody), <<StatusHandler(StatusOK)>>)
      [] c.kind = "VerifySlackSignatureHandler" ->
            Wrap(VerifySlackSignatureHandler(c.token, c.expire),
                 <<StatusHandler(StatusOK)>>)
      [] c.kind = "BodyLimitHandler over PanicHandler" ->
            Wrap(BodyLimitHandler(c.maxBody), <<PanicHandler>>)
      [] c.kind = "RestrictMethodHandler over PanicHandler" ->
            Wrap(RestrictMethodHandler(c.methods), <<PanicHandler>>)

Flags(kind, tlsRedirect, methods, uris, maxBody, token, expire) ==
    [kind |-> kind, tlsRedirect |-> tlsRedirect, methods |-> methods,
     uris |-> uris, maxBody |-> maxBody, token |-> token, expire |-> expire]

\* the flag sets buildHandler is run with
FlagSets ==
    { Flags("buildHandler", FALSE, m, u, b, "k", 1) :
        m \in {<<>>, <<"POST">>},
        u \in {<<>>, <<"POST">>, <<"/a">>},
        b \in {0, 1} }
    \cup {Flags("buildHandler", TRUE, <<"POST">>, <<>>, 1, "k", 1)}

\* the set-ups of the handler tests
Harnesses ==
    {Flags("HttpsRedirectHandler", FALSE, <<>>, <<>>, 0, "", 0)}
    \cup {Flags("RestrictMethodHandler", FALSE, <<"GET", "POST">>, <<>>, 0, "", 0)}
    \cup { Flags("RestrictURIHandler", FALSE, <<>>, u, 0, "", 0) :
             u \in { <<"/allowed/specific", "allowed/odd", "", "/allowed/generic/">>,
                     <<"">>, <<"", "">>, <<"/">>, <<"allowed">>,
                     <<"", "allowed", "">> } }
    \cup { Flags("BodyLimitHandler", FALSE, <<>>, <<>>, b, "", 0) : b \in {1, 2} }
    \cup { Flags("VerifySlackSignatureHandler", FALSE, <<>>, <<>>, 0, "k", e) :
             e \in {0, 1} }
    \cup {Flags("BodyLimitHandler over PanicHandler", FALSE, <<>>, <<>>, 1, "", 0),
          Flags("RestrictMethodHandler over PanicHandler", FALSE, <<"POST">>, <<>>,
                0, "", 0)}

----------------------------------------------------------------------------
(* Requests *)

RECURSIVE Strings(_, _)
\* the strings over alphabet of length at most n
Strings(alphabet, n) ==
    IF n = 0 THEN {""}
    ELSE LET shorter == Strings(alphabet, n - 1)
         IN  shorter \cup {s \o c : s \in shorter, c \in alphabet}

Bodies == Strings({"a", "b"}, MaxBodyLen)

\* the X-Slack-Signature header a sender holding secret computes
SignedHeader(secret, timestamp, body) ==
    SlackSignatureVersion \o "="
        \o HexEncodeToString(
               HmacSha256(secret,
                          SlackSignatureVersion \o ":" \o timestamp \o ":" \o body))

\* r.RequestURI: the request target as sent, path and query
RequestURI(r) == IF r.query = "" THEN r.path ELSE r.path \o "?" \o r.query

\* the bytes of the body that arrive before the inbound stream fails or ends
Delivered(r) == IF r.failAt = NoFail THEN Len(r.body) ELSE r.failAt

\* a body as it reaches the handler: its bytes, the declared Content-Length,
\* whether the stream reports end-of-file together with the last bytes or on
\* the read after them, and after how many bytes it fails (NoFail: never)
Inbound(body, contentLength, eofWithData, failAt) ==
    [body |-> body, contentLength |-> contentLength,
     eofWithData |-> eofWithData, failAt |-> failAt]

Request(method, path, query, scheme, in, ts, sig) ==
    [method |-> method, path |-> path, query |-> query, scheme |-> scheme,
     body |-> in.body, contentLength |-> in.contentLength,
     eofWithData |-> in.eofWithData, failAt |-> in.failAt, ts |-> ts, sig |-> sig]

NoRequest == Request("", "", "", "", Inbound("", 0, TRUE, NoFail), "", "")

\* where the inbound stream of body may fail: never, or before its last byte
FailPoints(body) == {NoFail} \cup (IF body = "" THEN {} ELSE {Len(body) - 1})

\* bodies as net/http hands them over: a body of declared (exact) length reports
\* end-of-file with its last bytes, a chunked one (length unknown) may report
\* it on the read after them
ServerBodies ==
    UNION { { Inbound(b, l, e, NoFail) :
                l \in {UnknownLength, Len(b)}, e \in BOOLEAN } :
            b \in Bodies }
    \cup UNION { { Inbound(b, l, TRUE, f) :
                l \in {UnknownLength, Len(b)}, f \in FailPoints(b) } :
            b \in Bodies }

\* bodies with any declared length, as a caller of the handler may pass them
DeclaredBodies ==
    UNION { { Inbound(b, l, e, f) :
                l \in {UnknownLength} \cup 0..(MaxBodyLen + 1),
                e \in BOOLEAN, f \in FailPoints(b) } :
            b \in Bodies }

NoBodyIn == Inbound("", 0, TRUE, NoFail)

Timestamps == {"", "lol123", "0", "2"}

\* signature headers for a request with timestamp ts and the given body: signed
\* with the right secret, signed with another secret, and not hex at all
Signatures(token, ts, body) ==
    {SignedHeader(token, ts, body), SignedHeader("j", ts, body), "v0=lolno"}

\* the requests each set-up is driven with
Requests(c) ==
    CASE c.kind = "buildHandler" ->
            UNION { { Request(m, p, "", s, in, t, g) :
                        m \in {"GET", "POST"}, p \in {"/a", "/b"},
                        s \in (IF c.tlsRedirect THEN {"", "https"} ELSE {""}),
                        g \in Signatures(c.token, t, in.body) } :
                    in \in ServerBodies, t \in Timestamps \ {""} }
      [] c.kind = "HttpsRedirectHandler" ->
            { Request("GET", "/", "", s, NoBodyIn, "", "") :
                s \in {"", "http", "https"} }
      [] c.kind = "RestrictMethodHandler" ->
            { Request(m, "/", "", "", NoBodyIn, "", "") :
                m \in {"GET", "POST", "DELETE", "PUT", "get", "POS", "POSTS"} }
      [] c.kind = "RestrictURIHandler" ->
            { Request("GET", p, q, "", NoBodyIn, "", "") :
                p \in {"/allowed/specific", "/allowed/odd", "/allowed/generic/lol",
                       "/allowed/generic/", "/allowed/generic", "/", "/allowed/other",
                       "/allowed/", "/allowed", "/allowed/specific/lol"},
                q \in {"", "x=1"} }
      [] c.kind = "BodyLimitHandler" ->
            { Request("POST", "/", "", "", in, "", "") : in \in DeclaredBodies }
      [] c.kind = "VerifySlackSignatureHandler" ->
            UNION { { Request("GET", "/", "", "", in, t, g) :
                        g \in Signatures(c.token, t, in.body)
                              \cup {TrimPrefix(SignedHeader(c.token, t, in.body),
                                               SlackSignatureVersion \o "="),
                                    "v0=baad", ""} } :
                    in \in ServerBodies, t \in Timestamps \cup {"+1", "-1"} }
      [] c.kind = "BodyLimitHandler over PanicHandler" ->
            { Request("POST", "/", "", "", in, "", "") : in \in DeclaredBodies }
      [] c.kind = "RestrictMethodHandler over PanicHandler" ->
            { Request(m, "/", "", "", NoBodyIn, "", "") : m \in {"GET", "POST"} }

----------------------------------------------------------------------------
(* The predicates the handlers decide with *)

\* a method gate that looks at its first method only
MethodAllowedFirstOnly(method, methods) ==
    Len(methods) > 0 /\ method = methods[1]

\* RestrictMethodHandler: r.Method equals one of the methods
MethodAllowed(method, methods) ==
    \E i \in 1..Len(methods) : method = methods[i]

\* RestrictURIHandler, one pattern: an exact match, or a prefix match when the
\* pattern ends in "/"
URIMatches(eachURI, requestURI) ==
    \/ eachURI = requestURI
    \/ /\ CharAt(eachURI, Len(eachURI)) = "/"
       /\ HasPrefix(requestURI, eachURI)

URIAllowed(requestURI, uri) ==
    \E i \in 1..Len(uri) : URIMatches(uri[i], requestURI)

\* a pre-check that also refuses a declared length equal to the limit
OverLimitInclusive(contentLength, maxSize) == contentLength >= maxSize

\* BodyLimitHandler: the declared length is over the limit
OverLimit(contentLength, maxSize) == contentLength > maxSize

\* the bounded reader: the budget is spent, the next Read panics
BudgetSpent(budget) == budget <= 0

\* a bounded reader that does not cut p to its budget
TruncateNone(lenP, budget) == lenP

\* the bounded reader: the length of p after p = p[0:left]
Truncate(lenP, budget) == IF lenP > budget THEN budget ELSE lenP

\* a freshness check that also refuses a timestamp exactly expire old
ExpiredInclusive(ts, expire, t) == ts + expire <= t

\* VerifySlackSignatureHandler: ts.Add(expire).Before(time.Now())
Expired(ts, expire, t) == ts + expire < t

\* a decoding that takes a header that is not hex for an empty signature
ExpectedSignatureLenient(header) ==
    LET decoded == HexDecodeString(TrimPrefix(header, SlackSignatureVersion \o "="))
    IN  IF decoded.ok THEN decoded ELSE [ok |-> TRUE, bytes |-> <<>>]

\* VerifySlackSignatureHandler: the expected signature, hex-decoded
ExpectedSignature(header) ==
    HexDecodeString(TrimPrefix(header, SlackSignatureVersion \o "="))

\* a signature computed without the version in front of the signed string
CalcSigNoVersion(token, tsStr, body) ==
    HmacSha256(token, tsStr \o ":" \o body)

\* VerifySlackSignatureHandler: fmt.Fprintf(mac, "%s:%s:%s", ...); mac.Sum(nil)
CalcSig(token, tsStr, body) ==
    HmacSha256(token, SlackSignatureVersion \o ":" \o tsStr \o ":" \o body)

\* hmac.Equal
HmacEqual(expSig, calcSig) == expSig = calcSig

\* a handler that takes a failed read of the body for an upstream failure
ReadFailureStatusBadGateway(h) == StatusBadGateway

\* the status a handler answers when ioutil.ReadAll of the body returns an
\* error: 400 from VerifySlackSignatureHandler and StatusHandler, 502 from the
\* reverse proxy
ReadFailureStatus(h) ==
    IF h = "ReverseProxy" THEN StatusBadGateway ELSE StatusBadRequest

\* the sentinel of BodyLimitHandler, and the values a child may panic with
bodyTooLarge == "bodyTooLarge"
PanicValues == {"an error", "not an error"}

\* a deferred function that answers 413 whatever was recovered
RecoveredStatusAlways413(p) == <<StatusRequestEntityTooLarge>>

\* BodyLimitHandler's deferred function: what it writes having recovered p
RecoveredStatus(p) ==
    IF p = bodyTooLarge THEN <<StatusRequestEntityTooLarge>> ELSE <<>>

\* the statuses the upstream may answer through the reverse proxy
UpstreamStatuses == {StatusOK, StatusInternalServerError}

----------------------------------------------------------------------------
(* The state machine *)

TheChain == Chain(cfg)

\* what a goroutine of the server holds when it serves no request: the
\* variables of one request
IdleContext ==
    [pc |-> "idle", req |-> NoRequest, idx |-> 0, limited |-> FALSE, left |-> 0,
     inPos |-> 0, buf |-> "", newBody |-> NoBody, written |-> <<>>,
     seen |-> NoBody]

\* no validly signed request has been served yet
NoPrev == [any |-> FALSE, ts |-> "", body |-> "", admitted |-> FALSE,
           others |-> FALSE]

Cur == TheChain[idx]

Init ==
    /\ cfg \in FlagSets \cup Harnesses
    /\ now = 0
    /\ pc = "idle"
    /\ req = NoRequest
    /\ idx = 0
    /\ limited = FALSE
    /\ left = 0
    /\ inPos = 0
    /\ buf = ""
    /\ newBody = NoBody
    /\ written = <<>>
    /\ seen = NoBody
    /\ prev = NoPrev
    /\ parked = IdleContext

\* the server accepts request r at time t and calls the outermost handler
Receive(r, t) ==
    /\ req' = r
    /\ now' = t
    /\ pc' = "serve"
    /\ idx' = 1
    /\ UNCHANGED <<cfg, prev, parked, limited, left, inPos, buf, newBody, written, seen>>

\* http.Error(w, ..., code) and return
Reject(code) ==
    /\ written' = Append(written, code)
    /\ pc' = "done"

\* child.ServeHTTP(w, r)
ServeChild ==
    /\ idx' = idx + 1
    /\ pc' = "serve"

HttpsRedirect ==
    /\ pc = "serve"
    /\ Cur.h = "HttpsRedirectHandler"
    /\ IF req.scheme # "https"
       THEN /\ req' = [req EXCEPT !.scheme = "https"]
            /\ written' = Append(written, StatusMovedPermanently)
       ELSE UNCHANGED <<req, written>>
    /\ pc' = "done"
    /\ UNCHANGED <<cfg, prev, parked, now, idx, limited, left, inPos, buf, newBody, seen>>

RestrictMethod ==
    /\ pc = "serve"
    /\ Cur.h = "RestrictMethodHandler"
    /\ IF MethodAllowed(req.method, Cur.list)
       THEN ServeChild /\ UNCHANGED written
       ELSE Reject(StatusMethodNotAllowed) /\ UNCHANGED idx
    /\ UNCHANGED <<cfg, prev, parked, now, req, limited, left, inPos, buf, newBody, seen>>

RestrictURI ==
    /\ pc = "serve"
    /\ Cur.h = "RestrictURIHandler"
    /\ IF URIAllowed(RequestURI(req), Cur.list)
       THEN ServeChild /\ UNCHANGED written
       ELSE Reject(StatusNotFound) /\ UNCHANGED idx
    /\ UNCHANGED <<cfg, prev, parked, now, req, limited, left, inPos, buf, newBody, seen>>

\* BodyLimitHandler up to child.ServeHTTP: the pre-check, then the bounded
\* reader is put in r.Body
BodyLimit ==
    /\ pc = "serve"
    /\ Cur.h = "BodyLimitHandler"
    /\ IF OverLimit(req.contentLength, Cur.max)
       THEN Reject(StatusRequestEntityTooLarge) /\ UNCHANGED <<idx, limited, left>>
       ELSE /\ left' = Cur.max
            /\ limited' = TRUE
            /\ ServeChild
            /\ UNCHANGED written
    /\ UNCHANGED <<cfg, prev, parked, now, req, inPos, buf, newBody, seen>>

\* VerifySlackSignatureHandler up to ioutil.ReadAll: the timestamp, the
\* freshness and the decoding of the signature header
VerifyCheck ==
    /\ pc = "serve"
    /\ Cur.h = "VerifySlackSignatureHandler"
    /\ LET tsInt == Atoi(req.ts)
       IN  IF ~tsInt.ok THEN Reject(StatusBadRequest)
           ELSE IF Expired(tsInt.val, Cur.expire, now) THEN Reject(StatusUnauthorized)
           ELSE IF ~ExpectedSignature(req.sig).ok THEN Reject(StatusBadRequest)
           ELSE pc' = "readall" /\ UNCHANGED written
    /\ UNCHANGED <<cfg, prev, parked, now, req, idx, limited, left, inPos, buf, newBody, seen>>

\* StatusHandler and the reverse proxy start by reading the body
TerminalServe ==
    /\ pc = "serve"
    /\ Cur.h \in {"StatusHandler", "ReverseProxy"}
    /\ pc' = "readall"
    /\ UNCHANGED <<cfg, prev, parked, now, req, idx, limited, left, inPos, buf,
                   newBody, written, seen>>

\* what the handler running ioutil.ReadAll does once it has returned data
Resume(data) ==
    CASE Cur.h = "VerifySlackSignatureHandler" ->
            IF HmacEqual(ExpectedSignature(req.sig).bytes,
                         CalcSig(Cur.token, req.ts, data))
            THEN /\ newBody' = Body(data)
                 /\ ServeChild
                 /\ UNCHANGED <<written, seen>>
            ELSE /\ Reject(StatusUnauthorized)
                 /\ UNCHANGED <<idx, newBody, seen>>
      [] Cur.h = "StatusHandler" ->
            /\ seen' = Body(data)
            /\ Reject(Cur.code)
            /\ UNCHANGED <<idx, newBody>>
      [] Cur.h = "ReverseProxy" ->
            /\ seen' = Body(data)
            /\ \E s \in UpstreamStatuses : Reject(s)
            /\ UNCHANGED <<idx, newBody>>

\* the inbound stream is being read (r.Body is not yet the buffer)
ReadingInbound == pc = "readall" /\ newBody = NoBody

\* bytes the inbound stream will still deliver
Avail == Delivered(req) - inPos

\* len(p) as ioutil.ReadAll passes it: more room than any body needs
LenP == Len(req.body) + 1

\* the most one Read can return: what is there, cut by the bounded reader
MaxRead == Min(IF limited THEN Truncate(LenP, left) ELSE LenP, Avail)

\* this Read returns io.EOF: with the last n bytes, or alone after them
AtEOF(n) ==
    /\ req.failAt = NoFail
    /\ inPos + n = Len(req.body)
    /\ n = 0 \/ req.eofWithData

\* a bounded reader that forgets to count what it has read
ConsumeUncounted(n) ==
    /\ inPos' = inPos + n
    /\ left' = left

Consume(n) ==
    /\ inPos' = inPos + n
    /\ left' = IF limited THEN left - n ELSE left

\* the bounded reader is asked to read with its budget spent: it panics, the
\* deferred function of BodyLimitHandler recovers and answers 413
ReadPanic ==
    /\ ReadingInbound
    /\ limited
    /\ BudgetSpent(left)
    /\ Reject(StatusRequestEntityTooLarge)
    /\ UNCHANGED <<cfg, prev, parked, now, req, idx, limited, left, inPos, buf, newBody, seen>>

\* the inbound stream fails: ioutil.ReadAll returns the error
ReadError ==
    /\ ReadingInbound
    /\ ~(limited /\ BudgetSpent(left))
    /\ req.failAt # NoFail
    /\ Avail = 0
    /\ Reject(ReadFailureStatus(Cur.h))
    /\ UNCHANGED <<cfg, prev, parked, now, req, idx, limited, left, inPos, buf, newBody, seen>>

\* one Read returning n bytes and no error
ReadData(n) ==
    /\ ReadingInbound
    /\ ~(limited /\ BudgetSpent(left))
    /\ n \in 1..MaxRead
    /\ ~AtEOF(n)
    /\ Consume(n)
    /\ buf' = buf \o SubSeq(req.body, inPos + 1, inPos + n)
    /\ UNCHANGED <<cfg, prev, parked, now, pc, req, idx, limited, newBody, written, seen>>

\* the Read that returns io.EOF (with n bytes): ioutil.ReadAll returns
ReadEOF(n) ==
    /\ ReadingInbound
    /\ ~(limited /\ BudgetSpent(left))
    /\ n \in 0..MaxRead
    /\ AtEOF(n)
    /\ Consume(n)
    /\ buf' = ""
    /\ Resume(buf \o SubSeq(req.body, inPos + 1, inPos + n))
    /\ UNCHANGED <<cfg, prev, parked, now, req, limited>>

\* the child panics with p: the deferred function of a BodyLimitHandler above
\* it recovers p and the handler returns; with none above, the panic leaves the
\* chain
ChildPanic(p) ==
    /\ pc = "serve"
    /\ Cur.h = "PanicHandler"
    /\ IF limited
       THEN /\ written' = written \o RecoveredStatus(p)
            /\ pc' = "done"
       ELSE /\ pc' = "crashed"
            /\ UNCHANGED written
    /\ UNCHANGED <<cfg, prev, parked, now, req, idx, limited, left, inPos, buf, newBody,
                   seen>>

\* ioutil.ReadAll over the bytes.Buffer that VerifySlackSignatureHandler left
ReadBuffer ==
    /\ pc = "readall"
    /\ newBody # NoBody
    /\ Resume(newBody.bytes)
    /\ UNCHANGED <<cfg, prev, parked, now, req, limited, left, inPos, buf>>

\* the handler has returned; nothing of the request is left in the handlers,
\* the server is ready for the next request
ResetRequest ==
    /\ pc \in {"done", "crashed"}
    /\ pc' = "idle"
    /\ req' = NoRequest
    /\ idx' = 0
    /\ limited' = FALSE
    /\ left' = 0
    /\ inPos' = 0
    /\ buf' = ""
    /\ newBody' = NoBody
    /\ written' = <<>>
    /\ seen' = NoBody
    /\ UNCHANGED <<cfg, now>>

Finish == ResetRequest /\ UNCHANGED <<prev, parked>>

\* any request of the set-up arrives, at the current time or later
Accept ==
    /\ pc = "idle"
    /\ \E r \in Requests(cfg), t \in now..MaxNow : Receive(r, t)

Next ==
    \/ Accept
    \/ HttpsRedirect
    \/ RestrictMethod
    \/ RestrictURI
    \/ BodyLimit
    \/ VerifyCheck
    \/ TerminalServe
    \/ ReadPanic
    \/ ReadError
    \/ \E n \in 1..MaxBodyLen : ReadData(n)
    \/ \E n \in 0..MaxBodyLen : ReadEOF(n)
    \/ ReadBuffer
    \/ \E p \in PanicValues : ChildPanic(p)
    \/ Finish

Spec == Init /\ [][Next]_vars

----------------------------------------------------------------------------
(* VerifySlackSignatureHandler serving request after request, with the last  *)
(* validly signed request remembered                                         *)

\* requests whose body arrives whole: signed with the right secret, signed
\* with another secret, and with a signature header that is not hex
ReplayRequests(c) ==
    UNION { { Request("POST", "/", "", "", Inbound(b, Len(b), e, NoFail), t, g) :
                g \in Signatures(c.token, t, b) } :
            b \in Bodies, e \in BOOLEAN, t \in {"0", "2"} }

InitReplay == Init /\ cfg.kind = "VerifySlackSignatureHandler"

AcceptReplay ==
    /\ pc = "idle"
    /\ \E r \in ReplayRequests(cfg), t \in now..MaxNow : Receive(r, t)

\* Finish, noting the request if it was validly signed and whether the
\* handler invoked its child for it, and otherwise that another request came
\* after the one noted
FinishReplay ==
    /\ ResetRequest
    /\ prev' = IF req.sig = SignedHeader(cfg.token, req.ts, req.body)
               THEN [any |-> TRUE, ts |-> req.ts, body |-> req.body,
                     admitted |-> idx > 1, others |-> FALSE]
               ELSE [prev EXCEPT !.others = prev.any]
    /\ UNCHANGED parked

NextReplay ==
    \/ AcceptReplay
    \/ VerifyCheck
    \/ TerminalServe
    \/ \E n \in 1..MaxBodyLen : ReadData(n)
    \/ \E n \in 0..MaxBodyLen : ReadEOF(n)
    \/ ReadBuffer
    \/ FinishReplay

SpecReplay == InitReplay /\ [][NextReplay]_vars

----------------------------------------------------------------------------
(* The chain of buildHandler serving two requests at once: net/http runs the *)
(* handler of each connection in a goroutine of its own, and the scheduler   *)
(* may switch between them at any step.  Time stands still meanwhile.        *)

ConcurrentFlags == Flags("buildHandler", FALSE, <<"POST">>, <<>>, 1, "k", 1)

\* POST requests with chunked bodies of every length, fresh or expired, signed
\* or not; one whose stream breaks off, one with a declared length over the
\* limit, and a GET
ConcurrentRequests(c) ==
    UNION { { Request("POST", "/a", "", "", Inbound(b, UnknownLength, e, NoFail),
                      t, g) :
                g \in {SignedHeader(c.token, t, b), "v0=lolno"} } :
            b \in Strings({"a"}, MaxBodyLen), e \in BOOLEAN, t \in {"0", "-2"} }
    \cup { Request("POST", "/a", "", "", Inbound("a", UnknownLength, TRUE, 0), "0",
                   SignedHeader(c.token, "0", "a")),
           Request("POST", "/a", "", "", Inbound("aa", 2, TRUE, NoFail), "0",
                   SignedHeader(c.token, "0", "aa")),
           Request("GET", "/a", "", "", Inbound("", 0, TRUE, NoFail), "0",
                   SignedHeader(c.token, "0", "")) }

InitConcurrent == Init /\ cfg = ConcurrentFlags

AcceptConcurrent ==
    /\ pc = "idle"
    /\ \E r \in ConcurrentRequests(cfg) : Receive(r, now)

\* a budget counter shared by all the requests of the handler
LeftSeenByShared(own, last) == last

\* the budget counter a resumed goroutine finds: its own (left is a variable of
\* the handler function, one for each request), not the one last written
LeftSeenBy(own, last) == own

\* the scheduler parks the running goroutine and resumes the other one
Switch ==
    /\ pc # "idle" \/ parked.pc # "idle"
    /\ pc' = parked.pc
    /\ req' = parked.req
    /\ idx' = parked.idx
    /\ limited' = parked.limited
    /\ left' = LeftSeenBy(parked.left, left)
    /\ inPos' = parked.inPos
    /\ buf' = parked.buf
    /\ newBody' = parked.newBody
    /\ written' = parked.written
    /\ seen' = parked.seen
    /\ parked' = [pc |-> pc, req |-> req, idx |-> idx, limited |-> limited,
                  left |-> left, inPos |-> inPos, buf |-> buf,
                  newBody |-> newBody, written |-> written, seen |-> seen]
    /\ UNCHANGED <<cfg, prev, now>>

NextConcurrent ==
    \/ AcceptConcurrent
    \/ RestrictMethod
    \/ BodyLimit
    \/ VerifyCheck
    \/ TerminalServe
    \/ ReadPanic
    \/ ReadError
    \/ \E n \in 1..MaxBodyLen : ReadData(n)
    \/ \E n \in 0..MaxBodyLen : ReadEOF(n)
    \/ ReadBuffer
    \/ Finish
    \/ Switch

SpecConcurrent == InitConcurrent /\ [][NextConcurrent]_vars

----------------------------------------------------------------------------
(* What the claims speak about *)

IsBuild == cfg.kind = "buildHandler"

\* the status the client receives: the first one written, 200 if none was
Status == IF written = <<>> THEN StatusOK ELSE written[1]

\* handler i of the chain has been invoked for the current request
Invoked(i) == pc # "idle" /\ idx >= i

\* handler i has been invoked and has passed the request on or answered it
Decided(i) == Invoked(i) /\ (idx > i \/ pc = "done")

\* the reverse proxy has been invoked for the current request
Forwarded == pc # "idle" /\ Cur.h = "ReverseProxy"

\* the positions in the chain of the handlers named h
Positions(h) == {i \in 1..Len(TheChain) : TheChain[i].h = h}

\* the admission predicates as the specification words them

\* the method is one of the allowed methods (exact, case-sensitive)
SpecMethodAdmitted(method, methods) ==
    method \in {methods[i] : i \in 1..Len(methods)}

\* a configured pattern as it is matched: with a leading "/"
SpecPattern(p) == IF HasPrefix(p, "/") THEN p ELSE "/" \o p

\* the path equals a pattern, or lies under a pattern that ends in "/"
SpecPathAdmitted(path, patterns) ==
    \E i \in 1..Len(patterns) :
        /\ patterns[i] # ""
        /\ LET pat == SpecPattern(patterns[i])
           IN  \/ path = pat
               \/ /\ SubSeq(pat, Len(pat), Len(pat)) = "/"
                  /\ Len(path) >= Len(pat)
                  /\ SubSeq(path, 1, Len(pat)) = pat

\* the timestamp header is an integer not older than maxAge
SpecFresh(ts, maxAge, t) == Atoi(ts).ok /\ t - Atoi(ts).val <= maxAge

\* the signature header is the one the holder of secret computes for r
SpecSigned(r, secret) == r.sig = SignedHeader(secret, r.ts, r.body)

\* the request passes every gate that the flags configure
SpecAdmitted ==
    /\ Len(cfg.methods) > 0 => SpecMethodAdmitted(req.method, cfg.methods)
    /\ Len(cfg.uris) > 0 => SpecPathAdmitted(req.path, cfg.uris)
    /\ cfg.maxBody > 0 => /\ req.contentLength <= cfg.maxBody
                          /\ Len(req.body) <= cfg.maxBody
    /\ SpecFresh(req.ts, cfg.expire, now)
    /\ SpecSigned(req, cfg.token)

----------------------------------------------------------------------------
(* C1..C10 *)

\* C1: in the chain of buildHandler the reverse proxy is invoked for a request
\* only if every configured gate admits it: allowed method, allowed path, body
\* within the limit, fresh timestamp, valid signature.
C1_ForwardedOnlyIfAdmitted == IsBuild /\ Forwarded => SpecAdmitted

\* C2: in the chain of buildHandler every request that satisfies all configured
\* gates (and whose body arrives whole) is passed on to the reverse proxy, and
\* the response of the chain is the response of the upstream.
C2_AdmittedIsForwarded ==
    IsBuild /\ pc = "done" /\ SpecAdmitted /\ req.failAt = NoFail
        => /\ Forwarded
           /\ Len(written) = 1
           /\ written[1] \in UpstreamStatuses

\* C3: the gates of the chain are evaluated in the order method gate, URI gate,
\* body limiter, signature verifier.  The method gate being the first, a request
\* with a disallowed method is answered 405 whatever the later gates would say,
\* in particular when its Content-Length is above the limit.
C3_MethodGateDecidesFirst ==
    /\ IsBuild
    /\ ~cfg.tlsRedirect
    /\ pc = "done"
    /\ Len(cfg.methods) > 0
    /\ ~SpecMethodAdmitted(req.method, cfg.methods)
    => Status = StatusMethodNotAllowed

\* C4: RestrictMethodHandler invokes its child if and only if the request
\* method equals, exactly and case-sensitively, one of its methods; for every
\* other method it answers 405 and does not invoke the child.
C4_MethodGate ==
    \A i \in Positions("RestrictMethodHandler") :
        Decided(i) =>
            IF SpecMethodAdmitted(req.method, TheChain[i].list)
            THEN Invoked(i + 1)
            ELSE idx = i /\ written = <<StatusMethodNotAllowed>>

C4_Witness ==
    /\ cfg.kind = "RestrictMethodHandler"
    /\ pc = "done"
    /\ req.method = "get"
    /\ idx = 1
    /\ written = <<StatusMethodNotAllowed>>

\* C5: RestrictURIHandler invokes its child if and only if the request path
\* equals a configured pattern or starts with a configured pattern that ends in
\* "/"; for every other path it answers 404 and does not invoke the child.
C5_URIGate ==
    cfg.kind = "RestrictURIHandler" /\ Decided(1) =>
        IF SpecPathAdmitted(req.path, cfg.uris)
        THEN Invoked(2)
        ELSE idx = 1 /\ written = <<StatusNotFound>>

\* C6: with allowed paths configured, the chain of buildHandler rejects with 404
\* a request with an allowed method whose path matches no pattern (the request
\* being within the body limit, so that no other gate of the chain precedes),
\* and the URI stage does not reject a request whose path matches a pattern.
C6_ChainAppliesURIGate ==
    /\ IsBuild
    /\ ~cfg.tlsRedirect
    /\ Len(cfg.uris) > 0
    /\ pc = "done"
    /\ Len(cfg.methods) > 0 => SpecMethodAdmitted(req.method, cfg.methods)
    /\ cfg.maxBody > 0 => /\ req.contentLength <= cfg.maxBody
                          /\ Len(req.body) < cfg.maxBody
    => IF SpecPathAdmitted(req.path, cfg.uris)
       THEN Invoked(Len(TheChain) - 1)
       ELSE Status = StatusNotFound

\* C7: BodyLimitHandler answers 413 to every request whose declared
\* Content-Length is greater than the limit, reading no byte of the body and
\* not invoking its child; a declared length equal to the limit, or an unknown
\* length, passes the pre-check: the bounded reader is installed and the child
\* invoked.
C7_DeclaredLengthPreCheck ==
    \A i \in Positions("BodyLimitHandler") :
        Decided(i) =>
            IF req.contentLength > TheChain[i].max
            THEN /\ idx = i
                 /\ written = <<StatusRequestEntityTooLarge>>
                 /\ inPos = 0
                 /\ ~limited
            ELSE Invoked(i + 1) /\ limited

C7_Witness ==
    /\ cfg.kind = "BodyLimitHandler"
    /\ pc = "done"
    /\ req.contentLength > cfg.maxBody
    /\ Len(req.body) > 0
    /\ idx = 1
    /\ inPos = 0
    /\ written = <<StatusRequestEntityTooLarge>>

\* C8 as claimed: every request whose actual body byte count exceeds the limit
\* is answered 413, by BodyLimitHandler and by the chain of buildHandler,
\* whatever its other headers (stated for the requests that BodyLimitHandler
\* is invoked for).
C8_OversizeAlways413 ==
    \A i \in Positions("BodyLimitHandler") :
        /\ Invoked(i)
        /\ pc = "done"
        /\ Delivered(req) > TheChain[i].max
        => Status = StatusRequestEntityTooLarge

\* C8 as amended: once the child of BodyLimitHandler reads, through the bounded
\* reader, a body whose actual byte count exceeds the limit, the request ends
\* with 413 as its only status.
C8_OversizeRead413 ==
    [][ /\ ReadingInbound
        /\ limited
        /\ \E i \in Positions("BodyLimitHandler") :
               Delivered(req) > TheChain[i].max
        /\ pc' = "done"
        => written' = <<StatusRequestEntityTooLarge>> ]_vars

C8_Witness ==
    /\ IsBuild
    /\ pc = "done"
    /\ limited
    /\ req.contentLength = UnknownLength
    /\ Delivered(req) > cfg.maxBody
    /\ Cur.h = "VerifySlackSignatureHandler"
    /\ written = <<StatusRequestEntityTooLarge>>

\* C9: BodyLimitHandler never answers 413 to a request whose actual body length
\* is at most the limit (the declared length being unknown or exact, the body
\* arriving whole), a body of exactly maxSize bytes included.
C9_WithinLimitNever413 ==
    \A i \in Positions("BodyLimitHandler") :
        /\ Invoked(i)
        /\ Len(req.body) <= TheChain[i].max
        /\ req.contentLength \in {UnknownLength, Len(req.body)}
        /\ req.failAt = NoFail
        => \A k \in 1..Len(written) : written[k] # StatusRequestEntityTooLarge

\* C10: VerifySlackSignatureHandler invokes its child for every request whose
\* signature header is "v0=" and the hex of the HMAC, keyed by the secret, of
\* "v0:" timestamp ":" body, and whose timestamp is within the freshness
\* window, whatever the body, the empty one included -- the body stream not
\* failing and no bounded reader aborting the request.
C10_SignedRequestAdmitted ==
    \A i \in Positions("VerifySlackSignatureHandler") :
        /\ Invoked(i)
        /\ pc = "done"
        /\ SpecSigned(req, TheChain[i].token)
        /\ SpecFresh(req.ts, TheChain[i].expire, now)
        /\ req.failAt = NoFail
        /\ written # <<StatusRequestEntityTooLarge>>
        => Invoked(i + 1)

C10_Witness ==
    /\ cfg.kind = "VerifySlackSignatureHandler"
    /\ pc = "done"
    /\ req.body = ""
    /\ SpecSigned(req, cfg.token)
    /\ SpecFresh(req.ts, cfg.expire, now)
    /\ idx = 2
    /\ seen = Body("")
    /\ written = <<StatusOK>>

\* the bounded reader of a BodyLimitHandler has aborted the request
ReaderAborted == \E k \in 1..Len(written) : written[k] = StatusRequestEntityTooLarge

C12_ExpiredIffOlderThanMaxAge ==
    [][ /\ pc = "serve"
        /\ Cur.h = "VerifySlackSignatureHandler"
        /\ Atoi(req.ts).ok
        => ( (pc' = "done" /\ written' = Append(written, StatusUnauthorized))
             <=> now - Atoi(req.ts).val > Cur.expire ) ]_vars

\* a request exactly maxAge old that is admitted
C12_Witness ==
    /\ cfg.kind = "VerifySlackSignatureHandler"
    /\ pc = "done"
    /\ Atoi(req.ts).ok
    /\ cfg.expire > 0
    /\ now = Atoi(req.ts).val + cfg.expire
    /\ idx = 2
    /\ written = <<StatusOK>>

\* C13: a request whose timestamp lies in the future beyond the window
\* (timestamp > now + maxAge) is refused by VerifySlackSignatureHandler as
\* expired, with 401 (stated for the requests that nothing else is wrong with:
\* the signature is valid and the body arrives whole).
C13_FutureTimestampExpired ==
    \A i \in Positions("VerifySlackSignatureHandler") :
        /\ Decided(i)
        /\ SpecSigned(req, TheChain[i].token)
        /\ req.failAt = NoFail
        /\ ~ReaderAborted
        /\ Atoi(req.ts).ok
        /\ Atoi(req.ts).val > now + TheChain[i].expire
        => Status = StatusUnauthorized /\ ~Invoked(i + 1)

\* C14: for every request that VerifySlackSignatureHandler admits, the body
\* its child reads is the original request body, byte for byte, complete and
\* in order, and the inbound stream has been consumed once, to its end, and
\* is not read again.
C14_ChildReadsOriginalBody ==
    \A i \in Positions("VerifySlackSignatureHandler") :
        Invoked(i + 1) =>
            /\ inPos = Len(req.body)
            /\ newBody = [present |-> TRUE, bytes |-> req.body]
            /\ seen.present => seen.bytes = req.body

\* the reverse proxy has read a two-byte body that arrived in pieces
C14_Witness ==
    /\ IsBuild
    /\ pc = "done"
    /\ Forwarded
    /\ ~req.eofWithData
    /\ Len(req.body) = 2
    /\ seen = [present |-> TRUE, bytes |-> req.body]

\* C15: verification is stateless: a validly signed request is admitted every
\* time it is submitted while now <= timestamp + maxAge, whatever requests
\* were served before it -- the same request, already admitted, included.
C15_ReplayAdmitted ==
    /\ pc = "done"
    /\ SpecSigned(req, cfg.token)
    /\ SpecFresh(req.ts, cfg.expire, now)
    => /\ Invoked(2)
       /\ prev.any /\ prev.ts = req.ts /\ prev.body = req.body => prev.admitted

\* the request admitted before is admitted again, later, after other requests
C15_Witness ==
    /\ pc = "done"
    /\ prev.any /\ prev.admitted /\ prev.others
    /\ prev.ts = req.ts /\ prev.body = req.body /\ req.body # ""
    /\ SpecSigned(req, cfg.token)
    /\ now = Atoi(req.ts).val + cfg.expire
    /\ cfg.expire > 0
    /\ written = <<StatusOK>>

\* C16: in the chain of buildHandler a gate that is not configured is not
\* installed: without allowed methods no request is answered 405, without
\* allowed paths none is answered 404, without a positive body limit none is
\* answered 413.
C16_UnconfiguredGateNeverRejects ==
    IsBuild /\ ~Forwarded =>
        /\ Len(cfg.methods) = 0 => Status # StatusMethodNotAllowed
        /\ Len(cfg.uris) = 0 => Status # StatusNotFound
        /\ cfg.maxBody <= 0 => Status # StatusRequestEntityTooLarge

\* C17: every response the chain of buildHandler produces itself (the reverse
\* proxy not having been invoked) has status 400, 401, 404, 405 or 413.
C17_ChainStatuses ==
    IsBuild /\ pc = "done" /\ ~Forwarded =>
        Status \in {StatusBadRequest, StatusUnauthorized, StatusNotFound,
                    StatusMethodNotAllowed, StatusRequestEntityTooLarge}

\* C18: RestrictURIHandler matches a pattern without a leading "/" as if it
\* had one and an empty pattern matches nothing: the request is passed on if
\* and only if its target matches one of the non-empty patterns, "/" put in
\* front where it is missing; otherwise (always, when every pattern is empty)
\* the answer is 404.
C18_PatternNormalisation ==
    \A i \in Positions("RestrictURIHandler") :
        Decided(i) =>
            IF SpecPathAdmitted(RequestURI(req), cfg.uris)
            THEN Invoked(i + 1)
            ELSE Status = StatusNotFound /\ ~Invoked(i + 1)

\* empty patterns around one without "/": the pattern admits its path
C18_Witness ==
    /\ cfg.kind = "RestrictURIHandler"
    /\ cfg.uris = <<"", "allowed", "">>
    /\ pc = "done"
    /\ RequestURI(req) = "/allowed"
    /\ idx = 2
    /\ written = <<StatusOK>>

\* only empty patterns: the root path is refused
C18_WitnessEmpty ==
    /\ cfg.kind = "RestrictURIHandler"
    /\ cfg.uris = <<"", "">>
    /\ pc = "done"
    /\ RequestURI(req) = "/"
    /\ idx = 1
    /\ written = <<StatusNotFound>>

\* C19: HttpsRedirectHandler invokes its child if and only if the request
\* arrived over https; a request over plain http is answered 301 and the
\* child is not invoked.
C19_RedirectOnlyPlainHTTP ==
    [][ pc = "serve" /\ Cur.h = "HttpsRedirectHandler" =>
            IF req.scheme = "https"
            THEN pc' = "serve" /\ idx' = idx + 1 /\ written' = written
            ELSE /\ pc' = "done" /\ idx' = idx
                 /\ written' = <<StatusMovedPermanently>> ]_vars

\* C20: when the bounded reader of BodyLimitHandler aborts a request, no
\* status has been written and the reverse proxy has not been invoked, and 413
\* is then the only status of the request; no request has more than one status
\* written.
C20_AbortWritesOnly413 ==
    [][ /\ Len(written') <= 1
        /\ ReadingInbound /\ limited /\ BudgetSpent(left) /\ pc' = "done"
           => /\ written = <<>>
              /\ ~Forwarded
              /\ seen = NoBody
              /\ written' = <<StatusRequestEntityTooLarge>> ]_vars

\* the bounded reader has aborted a body that under-reports its length
C20_Witness ==
    /\ cfg.kind = "BodyLimitHandler"
    /\ pc = "done"
    /\ req.contentLength \in 0..cfg.maxBody
    /\ Len(req.body) > cfg.maxBody
    /\ left = 0
    /\ inPos = cfg.maxBody
    /\ seen = NoBody
    /\ written = <<StatusRequestEntityTooLarge>>

\* C21: when the read of the request body fails part-way,
\* VerifySlackSignatureHandler answers 400, and it never invokes its child for
\* a request whose body does not arrive whole: no partial body is forwarded.
C21_FailedReadIs400 ==
    [][ pc = "readall" /\ Cur.h = "VerifySlackSignatureHandler"
        /\ req.failAt # NoFail
        => /\ idx' <= idx
           /\ seen' = NoBody
           /\ (pc' = "done" /\ ~(limited /\ left <= 0))
                  => written' = <<StatusBadRequest>> ]_vars

\* a validly signed request whose body broke off after its first byte
C21_Witness ==
    /\ cfg.kind = "VerifySlackSignatureHandler"
    /\ pc = "done"
    /\ req.failAt = 1
    /\ inPos = 1
    /\ SpecSigned(req, cfg.token)
    /\ SpecFresh(req.ts, cfg.expire, now)
    /\ idx = 1
    /\ written = <<StatusBadRequest>>

\* C23: RestrictURIHandler matches on the path only: a request whose path
\* equals an exact pattern, or lies under a pattern that ends in "/", is
\* passed on whatever its query string.
C23_QueryStringIgnored ==
    \A i \in Positions("RestrictURIHandler") :
        Decided(i) /\ SpecPathAdmitted(req.path, cfg.uris) => Invoked(i + 1)

\* C24: in the bounded reader of BodyLimitHandler the remaining budget stays
\* within 0..maxSize, it is maxSize less the bytes the underlying reads have
\* returned so far, and the child never holds more than maxSize bytes of the
\* body.
C24_BudgetAccounting ==
    \A i \in Positions("BodyLimitHandler") :
        Invoked(i + 1) /\ limited =>
            /\ left \in 0..TheChain[i].max
            /\ left = TheChain[i].max - inPos
            /\ Len(buf) <= TheChain[i].max
            /\ newBody.present => Len(newBody.bytes) <= TheChain[i].max
            /\ seen.present => Len(seen.bytes) <= TheChain[i].max

\* the child is in the middle of a body, one byte read, one byte of budget left
C24_Witness ==
    /\ cfg.kind = "BodyLimitHandler"
    /\ cfg.maxBody = 2
    /\ pc = "readall"
    /\ limited
    /\ Len(req.body) = 2
    /\ Len(buf) = 1
    /\ inPos = 1
    /\ left = 1

\* C25: BodyLimitHandler writes 413 only when the declared length is over the
\* limit or its own bounded reader has raised the sentinel; a panic of the
\* child with another value is recovered, the handler returns and writes
\* nothing for it.
C25_Only413ForOwnLimit ==
    [][ /\ written' = Append(written, StatusRequestEntityTooLarge)
           => \/ /\ pc = "serve" /\ Cur.h = "BodyLimitHandler"
                 /\ req.contentLength > Cur.max
              \/ /\ pc = "readall" /\ limited /\ left <= 0
                 /\ newBody = NoBody
        /\ pc = "serve" /\ Cur.h = "PanicHandler" /\ limited
           => pc' = "done" /\ written' = written ]_vars

\* the child has panicked under BodyLimitHandler: returned, nothing written
C25_Witness ==
    /\ cfg.kind = "BodyLimitHandler over PanicHandler"
    /\ pc = "done"
    /\ limited
    /\ idx = 2
    /\ written = <<>>

\* the bounded reader with budget max aborts the reading of the body of r: more
\* than max bytes arrive, or max bytes and the end of the stream (or its
\* failure) shows only on a further Read
AloneAborts(r, max) ==
    \/ Delivered(r) > max
    \/ Delivered(r) = max /\ ~(r.failAt = NoFail /\ r.eofWithData)

RECURSIVE AloneFrom(_, _, _, _, _)
\* the outcome of request r served at time t with no other request around,
\* from handler i of the chain on: whether the reverse proxy is invoked and the
\* statuses the response may have; lim is <<max>> behind a bounded reader
AloneFrom(chain, i, r, t, lim) ==
    LET h == chain[i]
        Answer(code) == [forwarded |-> FALSE, statuses |-> {code}]
        Child(l) == AloneFrom(chain, i + 1, r, t, l)
        tsInt == Atoi(r.ts)
        decoded == HexDecodeString(TrimPrefix(r.sig, SlackSignatureVersion \o "="))
        signed == SlackSignatureVersion \o ":" \o r.ts \o ":" \o r.body
    IN  CASE h.h = "RestrictMethodHandler" ->
                IF \E k \in 1..Len(h.list) : h.list[k] = r.method
                THEN Child(lim) ELSE Answer(StatusMethodNotAllowed)
          [] h.h = "BodyLimitHandler" ->
                IF r.contentLength > h.max
                THEN Answer(StatusRequestEntityTooLarge) ELSE Child(<<h.max>>)
          [] h.h = "VerifySlackSignatureHandler" ->
                IF ~tsInt.ok THEN Answer(StatusBadRequest)
                ELSE IF t - tsInt.val > h.expire THEN Answer(StatusUnauthorized)
                ELSE IF ~decoded.ok THEN Answer(StatusBadRequest)
                ELSE IF lim # <<>> /\ AloneAborts(r, lim[1])
                     THEN Answer(StatusRequestEntityTooLarge)
                ELSE IF r.failAt # NoFail THEN Answer(StatusBadRequest)
                ELSE IF decoded.bytes # HmacSha256(h.token, signed)
                     THEN Answer(StatusUnauthorized)
                ELSE Child(<<>>)
          [] h.h = "ReverseProxy" ->
                [forwarded |-> TRUE, statuses |-> UpstreamStatuses]

\* C22: whatever the interleaving of two requests handled at the same time,
\* each request ends with the outcome (status, forwarded or not) it has when
\* handled alone.
C22_OutcomeAsAlone ==
    pc = "done" =>
        LET alone == AloneFrom(TheChain, 1, req, now, <<>>)
        IN  /\ Forwarded = alone.forwarded
            /\ Len(written) = 1
            /\ written[1] \in alone.statuses

\* a request of exactly the limit is forwarded, its budget spent, while the
\* other goroutine is in the middle of reading its own body with its own budget
C22_Witness ==
    /\ pc = "done"
    /\ Forwarded
    /\ limited /\ left = 0
    /\ parked.pc = "readall"
    /\ parked.limited /\ parked.left = 1
    /\ parked.idx = 3
    /\ parked.req.sig = SignedHeader(cfg.token, parked.req.ts, parked.req.body)
    /\ parked.req.body = "a"

====
